---- MODULE Spec2Model ----
(***************************************************************************)
(* Cell-coordinate selectors of tabled (src/src/object.rs).                *)
(*                                                                         *)
(* A caller builds a selector (an Object), optionally chains it with       *)
(* and/not, and evaluates cells(count_rows, count_columns) once.  The      *)
(* selectors are immutable descriptors, so the state is the selector held  *)
(* by the caller, the extent of the grid, the build profile and the        *)
(* outcome of the evaluation.                                              *)
(***************************************************************************)
EXTENDS Integers, Sequences, FiniteSets

VARIABLES
    obj,              \* the Object the caller holds
    count_rows,       \* extent handed to cells
    count_columns,
    overflow_checks,  \* build profile: TRUE = arithmetic overflow panics, FALSE = it wraps
    out,              \* outcome of cells: [panic, cells]
    resolved,         \* outcome of a direct call of bounds_to_usize
    pc                \* "new" | "built" | "done" | "resolved"

vars == <<obj, count_rows, count_columns, overflow_checks, out, resolved, pc>>

(***************************************************************************)
(* Bounds of the model.                                                    *)
(***************************************************************************)
MaxExtent == 3   \* count_rows, count_columns \in 0..MaxExtent
MaxIdx == 2      \* indexes, offsets and range endpoints \in 0..MaxIdx, plus usize::MAX
MaxAlg == 1      \* endpoints and indexes of the operands of and/not \in 0..MaxAlg

\* usize::MAX.  usize is pointer-sized; the 16-bit target is modelled, nothing
\* below depends on the width beyond the existence of a largest value.
UsizeMax == 65535

(***************************************************************************)
(* std::ops::Bound and ranges (a pair of a start and an end bound).        *)
(***************************************************************************)
Included(x) == <<"Included", x>>
Excluded(x) == <<"Excluded", x>>
Unbounded == <<"Unbounded">>

Range(start, end) == [start |-> start, end |-> end]

RangeFull == Range(Unbounded, Unbounded)

\* Outcome of a call: a panic, or the value returned.
Panic == [panic |-> TRUE, cells |-> <<>>]
Ok(cells) == [panic |-> FALSE, cells |-> cells]

\* y + 1 on usize: panics under overflow checks, wraps otherwise.
\* -1 stands for the panic.
AddOne(y, checks) ==
    IF y + 1 > UsizeMax
    THEN (IF checks THEN -1 ELSE (y + 1) % (UsizeMax + 1))
    ELSE y + 1

ResolvedPanic == [panic |-> TRUE, start |-> 0, end |-> 0]
Resolved(x, y) == [panic |-> (y = -1), start |-> IF y = -1 THEN 0 ELSE x, end |-> IF y = -1 THEN 0 ELSE y]

\* A faulty bounds_to_usize: an excluded start x is taken as x + 1.
bounds_to_usize_lenient(left, right, count_elements, checks) ==
    LET x == IF left[1] = "Included" THEN left[2]
             ELSE IF left[1] = "Excluded" THEN AddOne(left[2], FALSE) ELSE 0
    IN CASE right[1] = "Included" -> Resolved(x, AddOne(right[2], checks))
         [] right[1] = "Excluded" -> Resolved(x, right[2])
         [] right[1] = "Unbounded" -> Resolved(x, count_elements)

bounds_to_usize(left, right, count_elements, checks) ==
    CASE left[1] = "Included" /\ right[1] = "Included" -> Resolved(left[2], AddOne(right[2], checks))
      [] left[1] = "Included" /\ right[1] = "Excluded" -> Resolved(left[2], right[2])
      [] left[1] = "Included" /\ right[1] = "Unbounded" -> Resolved(left[2], count_elements)
      [] left[1] = "Unbounded" /\ right[1] = "Unbounded" -> Resolved(0, count_elements)
      [] left[1] = "Unbounded" /\ right[1] = "Included" -> Resolved(0, AddOne(right[2], checks))
      [] left[1] = "Unbounded" /\ right[1] = "Excluded" -> Resolved(0, right[2])
      [] left[1] = "Excluded" -> ResolvedPanic

(***************************************************************************)
(* Iterators.                                                              *)
(***************************************************************************)
\* (a..b).collect(): a, a + 1, ..., b - 1; empty when a >= b.
Iter(a, b) == IF b > a THEN [i \in 1..(b - a) |-> a + i - 1] ELSE <<>>

\* columns.map(|column| (row, column)).collect()
AlongRow(row, columns) == [i \in 1..Len(columns) |-> <<row, columns[i]>>]

\* rows.map(|row| (row, column)).collect()
AlongColumn(column, rows) == [i \in 1..Len(rows) |-> <<rows[i], column>>]

\* rows.map(|row| columns.map(|column| (row, column)).collect()).collect()
RowByRow(rows, columns) == [i \in 1..Len(rows) |-> AlongRow(rows[i], columns)]

\* columns.map(|column| rows.map(|row| (row, column)).collect()).collect()
ColumnByColumn(columns, rows) == [i \in 1..Len(columns) |-> AlongColumn(columns[i], rows)]

\* Vec<Vec<_>>::concat()
RECURSIVE Concat(_)
Concat(ss) == IF ss = <<>> THEN <<>> ELSE Head(ss) \o Concat(Tail(ss))

Elems(s) == {s[i] : i \in 1..Len(s)}

(***************************************************************************)
(* The selectors.  An Object is a record tagged with the name of its type. *)
(***************************************************************************)
Segment(rows, columns) == [kind |-> "Segment", columns |-> columns, rows |-> rows]
Frame == [kind |-> "Frame"]
FirstRow == [kind |-> "FirstRow"]
LastRow == [kind |-> "LastRow"]
Row(index) == [kind |-> "Row", index |-> index]
LastRowOffset(offset) == [kind |-> "LastRowOffset", offset |-> offset]
Full == [kind |-> "Full"]
Rows(range) == [kind |-> "Rows", range |-> range]
Columns(range) == [kind |-> "Columns", range |-> range]
FirstColumn == [kind |-> "FirstColumn"]
LastColumn == [kind |-> "LastColumn"]
Column(index) == [kind |-> "Column", index |-> index]
LastColumnOffset(offset) == [kind |-> "LastColumnOffset", offset |-> offset]
Cell(row, column) == [kind |-> "Cell", row |-> row, column |-> column]
Combination(lhs, rhs, combinator) ==
    [kind |-> "Combination", lhs |-> lhs, rhs |-> rhs, combinator |-> combinator]

Segment_cells(self, rows_n, columns_n, checks) ==
    LET rows == bounds_to_usize(self.rows.start, self.rows.end, rows_n, checks)
    IN IF rows.panic THEN Panic
       ELSE LET columns == bounds_to_usize(self.columns.start, self.columns.end, columns_n, checks)
            IN IF columns.panic THEN Panic
               ELSE Ok(Concat(RowByRow(Iter(rows.start, rows.end),
                                       Iter(columns.start, columns.end))))

\* A faulty Frame_cells: the sides are taken one step inside the grid.
Frame_cells_inset(rows_n, columns_n) ==
    LET horizontal == IF rows_n > 0
                      THEN AlongRow(0, Iter(0, columns_n))
                           \o AlongRow(rows_n - 1, Iter(0, columns_n))
                      ELSE <<>>
        vertical == IF columns_n > 1
                    THEN AlongColumn(1, Iter(0, rows_n))
                         \o AlongColumn(columns_n - 1, Iter(0, rows_n))
                    ELSE <<>>
    IN Ok(horizontal \o vertical)

Frame_cells(rows_n, columns_n) ==
    LET horizontal == IF rows_n > 0
                      THEN AlongRow(0, Iter(0, columns_n))
                           \o AlongRow(rows_n - 1, Iter(0, columns_n))
                      ELSE <<>>
        vertical == IF columns_n > 0
                    THEN AlongColumn(0, Iter(0, rows_n))
                         \o AlongColumn(columns_n - 1, Iter(0, rows_n))
                    ELSE <<>>
    IN Ok(horizontal \o vertical)

FirstRow_cells(rows_n, columns_n) ==
    Ok(AlongRow(0, Iter(0, columns_n)))

LastRow_cells(rows_n, columns_n) ==
    LET row == IF rows_n = 0 THEN 0 ELSE rows_n - 1
    IN Ok(AlongRow(row, Iter(0, columns_n)))

\* A faulty Row_cells: the index is compared with > instead of >=.
Row_cells_off_by_one(self, rows_n, columns_n) ==
    IF self.index > rows_n
    THEN Ok(<<>>)
    ELSE Ok(AlongRow(self.index, Iter(0, columns_n)))

Row_cells(self, rows_n, columns_n) ==
    IF self.index >= rows_n
    THEN Ok(<<>>)
    ELSE Ok(AlongRow(self.index, Iter(0, columns_n)))

\* A faulty LastRowOffset_cells: a grid without rows selects nothing.
LastRowOffset_cells_strict(self, rows_n, columns_n) ==
    IF rows_n = 0 \/ self.offset > rows_n - 1
    THEN Ok(<<>>)
    ELSE Ok(AlongRow(rows_n - 1 - self.offset, Iter(0, columns_n)))

LastRowOffset_cells(self, rows_n, columns_n) ==
    LET row == IF rows_n = 0 THEN 0 ELSE rows_n - 1
    IN IF self.offset > row
       THEN Ok(<<>>)
       ELSE Ok(AlongRow(row - self.offset, Iter(0, columns_n)))

Full_cells(rows_n, columns_n, checks) ==
    Segment_cells(Segment(RangeFull, RangeFull), rows_n, columns_n, checks)

Rows_cells(self, rows_n, columns_n, checks) ==
    LET xy == bounds_to_usize(self.range.start, self.range.end, rows_n, checks)
    IN IF xy.panic THEN Panic
       ELSE Ok(Concat(RowByRow(Iter(xy.start, xy.end), Iter(0, columns_n))))

\* A faulty Columns_cells: the rows are walked in the outer loop.
Columns_cells_row_major(self, rows_n, columns_n, checks) ==
    LET xy == bounds_to_usize(self.range.start, self.range.end, columns_n, checks)
    IN IF xy.panic THEN Panic
       ELSE Ok(Concat(RowByRow(Iter(0, rows_n), Iter(xy.start, xy.end))))

Columns_cells(self, rows_n, columns_n, checks) ==
    LET xy == bounds_to_usize(self.range.start, self.range.end, columns_n, checks)
    IN IF xy.panic THEN Panic
       ELSE Ok(Concat(ColumnByColumn(Iter(xy.start, xy.end), Iter(0, rows_n))))

FirstColumn_cells(rows_n, columns_n) ==
    Ok(AlongColumn(0, Iter(0, rows_n)))

\* usize::saturating_sub(1)
SaturatingSubOne(n) == IF n = 0 THEN 0 ELSE n - 1

LastColumn_cells(rows_n, columns_n) ==
    LET col == SaturatingSubOne(columns_n)
    IN Ok(AlongColumn(col, Iter(0, rows_n)))

Column_cells(self, rows_n, columns_n) ==
    LET col == self.index
    IN IF col >= columns_n
       THEN Ok(<<>>)
       ELSE Ok(AlongColumn(col, Iter(0, rows_n)))

LastColumnOffset_cells(self, rows_n, columns_n) ==
    LET col == SaturatingSubOne(columns_n)
    IN IF self.offset > col
       THEN Ok(<<>>)
       ELSE Ok(AlongColumn(col - self.offset, Iter(0, rows_n)))

Cell_cells(self) == Ok(<<<<self.row, self.column>>>>)

(***************************************************************************)
(* The combinators.                                                        *)
(***************************************************************************)
\* Ord for (usize, usize): by the first component, then by the second.
Less(a, b) == a[1] < b[1] \/ (a[1] = b[1] /\ a[2] < b[2])

\* BTreeSet::into_iter().collect(): the elements once each, ascending.
RECURSIVE Ascending(_)
Ascending(set) ==
    IF set = {} THEN <<>>
    ELSE LET least == CHOOSE a \in set : \A b \in set : a = b \/ Less(a, b)
         IN <<least>> \o Ascending(set \ {least})

\* A faulty combine_cells: the two vectors are chained and not collected
\* into an ordered set.
combine_cells_chain(lhs, rhs) == lhs \o rhs

combine_cells(lhs, rhs) == Ascending(Elems(lhs \o rhs))

\* A faulty remove_cells: only the first cell of rhs is looked up.
remove_cells_first(lhs, rhs) ==
    SelectSeq(lhs, LAMBDA l: ~(rhs # <<>> /\ l = rhs[1]))

remove_cells(lhs, rhs) == SelectSeq(lhs, LAMBDA l: ~(l \in Elems(rhs)))

RECURSIVE cells(_, _, _, _)
Combination_cells(self, rows_n, columns_n, checks) ==
    LET l == cells(self.lhs, rows_n, columns_n, checks)
    IN IF l.panic THEN Panic
       ELSE LET r == cells(self.rhs, rows_n, columns_n, checks)
            IN IF r.panic THEN Panic
               ELSE IF self.combinator = "combine_cells"
                    THEN Ok(combine_cells(l.cells, r.cells))
                    ELSE Ok(remove_cells(l.cells, r.cells))

\* Object::cells, dispatched on the type of the selector.
cells(self, rows_n, columns_n, checks) ==
    CASE self.kind = "Segment" -> Segment_cells(self, rows_n, columns_n, checks)
      [] self.kind = "Frame" -> Frame_cells(rows_n, columns_n)
      [] self.kind = "FirstRow" -> FirstRow_cells(rows_n, columns_n)
      [] self.kind = "LastRow" -> LastRow_cells(rows_n, columns_n)
      [] self.kind = "Row" -> Row_cells(self, rows_n, columns_n)
      [] self.kind = "LastRowOffset" -> LastRowOffset_cells(self, rows_n, columns_n)
      [] self.kind = "Full" -> Full_cells(rows_n, columns_n, checks)
      [] self.kind = "Rows" -> Rows_cells(self, rows_n, columns_n, checks)
      [] self.kind = "Columns" -> Columns_cells(self, rows_n, columns_n, checks)
      [] self.kind = "FirstColumn" -> FirstColumn_cells(rows_n, columns_n)
      [] self.kind = "LastColumn" -> LastColumn_cells(rows_n, columns_n)
      [] self.kind = "Column" -> Column_cells(self, rows_n, columns_n)
      [] self.kind = "LastColumnOffset" -> LastColumnOffset_cells(self, rows_n, columns_n)
      [] self.kind = "Cell" -> Cell_cells(self)
      [] self.kind = "Combination" -> Combination_cells(self, rows_n, columns_n, checks)

(***************************************************************************)
(* Inputs.                                                                 *)
(***************************************************************************)
Extents == 0..MaxExtent

\* Indexes, offsets and endpoints handed to the constructors.
Vals == (0..MaxIdx) \cup {UsizeMax}

StartBounds == {Unbounded} \cup {Included(v) : v \in Vals} \cup {Excluded(v) : v \in Vals}

\* An excluded end of usize::MAX is left to Resolve: a selector iterating up to
\* it allocates the whole address space.
EndBounds == {Unbounded} \cup {Included(v) : v \in Vals} \cup {Excluded(v) : v \in 0..MaxIdx}

Ranges == {Range(s, e) : s \in StartBounds, e \in EndBounds}

ResolveBounds == StartBounds \cup EndBounds \cup {Excluded(UsizeMax)}

\* Endpoints, indexes and operands of the runs that chain selectors.
AlgVals == 0..MaxAlg

AlgRanges ==
    {RangeFull, Range(Excluded(0), Unbounded)}
    \cup {Range(Included(x), Unbounded) : x \in 1..MaxAlg}
    \cup {Range(Unbounded, Excluded(y)) : y \in 1..MaxAlg}

Operands ==
    {Frame, FirstRow, LastRow, FirstColumn, LastColumn}
    \cup {Segment(r, c) : r \in AlgRanges, c \in AlgRanges}
    \cup {Rows(r) : r \in AlgRanges}
    \cup {Columns(r) : r \in AlgRanges}
    \cup {Row(k) : k \in AlgVals}
    \cup {Column(k) : k \in AlgVals}
    \cup {LastRowOffset(k) : k \in AlgVals}
    \cup {LastColumnOffset(k) : k \in AlgVals}
    \cup {Cell(i, j) : i \in AlgVals, j \in AlgVals}

(***************************************************************************)
(* The state machine.                                                      *)
(***************************************************************************)
NoObject == [kind |-> "None"]

Init ==
    /\ obj = NoObject
    /\ count_rows \in Extents
    /\ count_columns \in Extents
    /\ overflow_checks \in BOOLEAN
    /\ out = Ok(<<>>)
    /\ resolved = Resolved(0, 0)
    /\ pc = "new"

\* A constructor hands the caller a selector.
Build(o) ==
    /\ obj' = o
    /\ pc' = "built"
    /\ UNCHANGED <<count_rows, count_columns, overflow_checks, out, resolved>>

\* An operator consumes the selector the caller holds and hands back another.
Rebuild(o) ==
    /\ obj' = o
    /\ UNCHANGED <<count_rows, count_columns, overflow_checks, out, resolved, pc>>

\* The constructors draw their arguments from the set handed to them.
Segment_all ==
    /\ pc = "new"
    /\ Build(Segment(RangeFull, RangeFull))

Segment_new(ranges) ==
    /\ pc = "new"
    /\ \E rows \in ranges, columns \in ranges : Build(Segment(rows, columns))

Frame_new ==
    /\ pc = "new"
    /\ Build(Frame)

Full_new ==
    /\ pc = "new"
    /\ Build(Full)

Rows_new(ranges) ==
    /\ pc = "new"
    /\ \E range \in ranges : Build(Rows(range))

Rows_single(vals) ==
    /\ pc = "new"
    /\ \E index \in vals : Build(Row(index))

Rows_first ==
    /\ pc = "new"
    /\ Build(FirstRow)

Rows_last ==
    /\ pc = "new"
    /\ Build(LastRow)

Columns_new(ranges) ==
    /\ pc = "new"
    /\ \E range \in ranges : Build(Columns(range))

Columns_single(vals) ==
    /\ pc = "new"
    /\ \E index \in vals : Build(Column(index))

Columns_first ==
    /\ pc = "new"
    /\ Build(FirstColumn)

Columns_last ==
    /\ pc = "new"
    /\ Build(LastColumn)

Cell_new(vals) ==
    /\ pc = "new"
    /\ \E row \in vals, column \in vals : Build(Cell(row, column))

FirstRow_add(vals) ==
    /\ pc = "built"
    /\ obj.kind = "FirstRow"
    /\ \E rhs \in vals : Rebuild(Row(rhs))

LastRow_sub(vals) ==
    /\ pc = "built"
    /\ obj.kind = "LastRow"
    /\ \E rhs \in vals : Rebuild(LastRowOffset(rhs))

FirstColumn_add(vals) ==
    /\ pc = "built"
    /\ obj.kind = "FirstColumn"
    /\ \E rhs \in vals : Rebuild(Column(rhs))

LastColumn_sub(vals) ==
    /\ pc = "built"
    /\ obj.kind = "LastColumn"
    /\ \E rhs \in vals : Rebuild(LastColumnOffset(rhs))

\* One combinator is evaluated per run: its children are not combinations.
Object_and ==
    /\ pc = "built"
    /\ obj.kind # "Combination"
    /\ \E rhs \in Operands : Rebuild(Combination(obj, rhs, "combine_cells"))

Object_not ==
    /\ pc = "built"
    /\ obj.kind # "Combination"
    /\ \E rhs \in Operands : Rebuild(Combination(obj, rhs, "remove_cells"))

Object_cells ==
    /\ pc = "built"
    /\ out' = cells(obj, count_rows, count_columns, overflow_checks)
    /\ pc' = "done"
    /\ UNCHANGED <<obj, count_rows, count_columns, overflow_checks, resolved>>

\* bounds_to_usize called on its own, on the range the caller holds.
Resolve ==
    /\ pc = "new"
    /\ \E left \in StartBounds, right \in ResolveBounds, count_elements \in Extents \cup {UsizeMax} :
          /\ obj' = [kind |-> "Bounds", left |-> left, right |-> right,
                     count_elements |-> count_elements]
          /\ resolved' = bounds_to_usize(left, right, count_elements, overflow_checks)
    /\ pc' = "resolved"
    /\ UNCHANGED <<count_rows, count_columns, overflow_checks, out>>

\* The catalogue: every selector on its own, over the whole of the inputs.
Next ==
    \/ Segment_all
    \/ Segment_new(Ranges)
    \/ Frame_new
    \/ Full_new
    \/ Rows_new(Ranges)
    \/ Rows_single(Vals)
    \/ Rows_first
    \/ Rows_last
    \/ Columns_new(Ranges)
    \/ Columns_single(Vals)
    \/ Columns_first
    \/ Columns_last
    \/ Cell_new(Vals)
    \/ FirstRow_add(Vals)
    \/ LastRow_sub(Vals)
    \/ FirstColumn_add(Vals)
    \/ LastColumn_sub(Vals)
    \/ Object_cells
    \/ Resolve

Spec == Init /\ [][Next]_vars

\* The algebra: two selectors chained by and/not.
NextAlgebra ==
    \/ Segment_all
    \/ Segment_new(AlgRanges)
    \/ Frame_new
    \/ Rows_new(AlgRanges)
    \/ Rows_single(AlgVals)
    \/ Rows_first
    \/ Rows_last
    \/ Columns_new(AlgRanges)
    \/ Columns_single(AlgVals)
    \/ Columns_first
    \/ Columns_last
    \/ Cell_new(AlgVals)
    \/ LastRow_sub(AlgVals)
    \/ LastColumn_sub(AlgVals)
    \/ Object_and
    \/ Object_not
    \/ Object_cells

SpecAlgebra == Init /\ [][NextAlgebra]_vars

(***************************************************************************)
(* Vocabulary of the properties.                                           *)
(***************************************************************************)
Done == pc = "done"

InGrid(cell) == cell[1] < count_rows /\ cell[2] < count_columns

RangeBased(o) == o.kind \in {"Segment", "Rows", "Columns"}

RangesOf(o) ==
    CASE o.kind = "Segment" -> {o.rows, o.columns}
      [] o.kind \in {"Rows", "Columns"} -> {o.range}
      [] OTHER -> {}

StartExcluded(o) == \E r \in RangesOf(o) : r.start[1] = "Excluded"

EndOverflows(o) == \E r \in RangesOf(o) : r.end = Included(UsizeMax)

StrictlyAscending(s) == \A i \in 1..(Len(s) - 1) : Less(s[i], s[i + 1])

HasDuplicates(s) == \E i, j \in 1..Len(s) : i < j /\ s[i] = s[j]

\* The outcomes of the two children of the combination the caller holds.
LhsOut == cells(obj.lhs, count_rows, count_columns, overflow_checks)
RhsOut == cells(obj.rhs, count_rows, count_columns, overflow_checks)

IsUnion == obj.kind = "Combination" /\ obj.combinator = "combine_cells"
IsDifference == obj.kind = "Combination" /\ obj.combinator = "remove_cells"

\* s with every repetition of an earlier element deleted, order kept.
RECURSIVE DedupKeepingOrder(_, _)
DedupKeepingOrder(s, seen) ==
    IF s = <<>> THEN <<>>
    ELSE IF Head(s) \in seen THEN DedupKeepingOrder(Tail(s), seen)
    ELSE <<Head(s)>> \o DedupKeepingOrder(Tail(s), seen \cup {Head(s)})

\* [(index, 0), ..., (index, columns - 1)]
RowAt(index, columns) == [j \in 1..columns |-> <<index, j - 1>>]

\* [(0, index), ..., (rows - 1, index)]
ColumnAt(index, rows) == [i \in 1..rows |-> <<i - 1, index>>]

(***************************************************************************)
(* C1: every coordinate returned by a selector other than the single-cell  *)
(* selector lies inside the extent: row < count_rows and                   *)
(* column < count_columns.                                                 *)
(***************************************************************************)
C1_InBounds ==
    (Done /\ obj.kind # "Cell" /\ ~out.panic)
        => \A i \in 1..Len(out.cells) : InGrid(out.cells[i])

(***************************************************************************)
(* C2: on an extent with no rows or no columns a selector other than the   *)
(* single-cell selector returns the empty sequence and does not fail       *)
(* (ranges that are malformed or that overflow set aside).                 *)
(***************************************************************************)
C2_EmptyOnDegenerateExtent ==
    (/\ Done
     /\ obj.kind # "Cell"
     /\ ~StartExcluded(obj)
     /\ ~EndOverflows(obj)
     /\ (count_rows = 0 \/ count_columns = 0))
        => out = Ok(<<>>)

(***************************************************************************)
(* C3: for a start bound that is not excluded, bounds_to_usize returns,    *)
(* without failing, the pair of the resolution table.                      *)
(***************************************************************************)
ResolutionTable(left, right, n) ==
    <<IF left[1] = "Included" THEN left[2] ELSE 0,
      CASE right[1] = "Included" -> right[2] + 1
        [] right[1] = "Excluded" -> right[2]
        [] right[1] = "Unbounded" -> n>>

C3_ResolverTotal ==
    (pc = "resolved" /\ obj.left[1] # "Excluded")
        => /\ ~resolved.panic
           /\ <<resolved.start, resolved.end>>
                = ResolutionTable(obj.left, obj.right, obj.count_elements)

(***************************************************************************)
(* C4: A.and(B).cells holds exactly the coordinates of A.cells and of      *)
(* B.cells, each once, strictly ascending by row and then by column; a     *)
(* child that fails makes the combination fail.                            *)
(***************************************************************************)
C4_UnionSortedDedup ==
    (Done /\ IsUnion)
        => IF LhsOut.panic \/ RhsOut.panic
           THEN out = Panic
           ELSE /\ ~out.panic
                /\ Elems(out.cells) = Elems(LhsOut.cells) \cup Elems(RhsOut.cells)
                /\ StrictlyAscending(out.cells)

\* A union of overlapping children, the left one not emitting in ascending order.
C4_Witness ==
    /\ Done
    /\ IsUnion
    /\ ~out.panic
    /\ ~StrictlyAscending(LhsOut.cells)
    /\ Elems(LhsOut.cells) \cap Elems(RhsOut.cells) # {}
    /\ ~(Elems(RhsOut.cells) \subseteq Elems(LhsOut.cells))
    /\ Len(out.cells) >= 3

(***************************************************************************)
(* C5: A.not(B).cells is A.cells with every element that occurs in B.cells *)
(* deleted: the kept elements stay in A's order with A's multiplicities.   *)
(***************************************************************************)
Kept == {i \in 1..Len(LhsOut.cells) : LhsOut.cells[i] \notin Elems(RhsOut.cells)}

C5_DifferenceKeepsOrder ==
    (Done /\ IsDifference)
        => IF LhsOut.panic \/ RhsOut.panic
           THEN out = Panic
           ELSE /\ ~out.panic
                /\ Len(out.cells) = Cardinality(Kept)
                /\ \A i \in Kept :
                      out.cells[Cardinality({j \in Kept : j <= i})] = LhsOut.cells[i]

\* A difference that deletes something and keeps a coordinate A emits twice.
C5_Witness ==
    /\ Done
    /\ IsDifference
    /\ ~out.panic
    /\ HasDuplicates(out.cells)
    /\ ~StrictlyAscending(out.cells)
    /\ Len(out.cells) < Len(LhsOut.cells)

(***************************************************************************)
(* C6: the first/last row and column select what absolute index 0 and      *)
(* end-relative offset 0 select.                                           *)
(***************************************************************************)
C6_FirstLastEquivalence ==
    Done =>
        /\ obj = FirstRow => out = Row_cells(Row(0), count_rows, count_columns)
        /\ obj = FirstColumn => out = Column_cells(Column(0), count_rows, count_columns)
        /\ obj = LastRow
              => out = LastRowOffset_cells(LastRowOffset(0), count_rows, count_columns)
        /\ obj = LastColumn
              => out = LastColumnOffset_cells(LastColumnOffset(0), count_rows, count_columns)

(***************************************************************************)
(* C7: Rows::last() - k resolves m = count_rows - 1 (0 on no rows), is     *)
(* empty when k > m and is row m - k over all columns otherwise;           *)
(* Columns::last() - k likewise with rows and columns exchanged.           *)
(***************************************************************************)
LastIndex(extent) == IF extent = 0 THEN 0 ELSE extent - 1

C7_EndRelativeOffset ==
    Done =>
        /\ obj.kind = "LastRowOffset"
              => out = Ok(IF obj.offset > LastIndex(count_rows) THEN <<>>
                          ELSE RowAt(LastIndex(count_rows) - obj.offset, count_columns))
        /\ obj.kind = "LastColumnOffset"
              => out = Ok(IF obj.offset > LastIndex(count_columns) THEN <<>>
                          ELSE ColumnAt(LastIndex(count_columns) - obj.offset, count_rows))

\* Offset 0 on a grid without rows still selects row 0 over all columns.
C7_Witness ==
    /\ Done
    /\ obj = LastRowOffset(0)
    /\ count_rows = 0
    /\ count_columns = MaxExtent
    /\ Len(out.cells) = MaxExtent

(***************************************************************************)
(* C8: a row (column) selected by absolute index k is row (column) k over  *)
(* the whole orthogonal extent when k is inside the extent, and empty      *)
(* otherwise.                                                              *)
(***************************************************************************)
C8_AbsoluteIndex ==
    Done =>
        /\ obj.kind = "Row"
              => out = Ok(IF obj.index < count_rows
                          THEN RowAt(obj.index, count_columns) ELSE <<>>)
        /\ obj.kind = "Column"
              => out = Ok(IF obj.index < count_columns
                          THEN ColumnAt(obj.index, count_rows) ELSE <<>>)

\* The last row of the grid, selected by its index.
C8_Witness ==
    /\ Done
    /\ obj.kind = "Row"
    /\ obj.index > 0
    /\ obj.index = count_rows - 1
    /\ Len(out.cells) = MaxExtent

(***************************************************************************)
(* C9 as stated: A.and(A).cells is A.cells with its repetitions deleted,   *)
(* in A's emission order.                                                  *)
(***************************************************************************)
C9_SelfUnionKeepsOrder ==
    (Done /\ IsUnion /\ obj.lhs = obj.rhs /\ ~out.panic)
        => out.cells = DedupKeepingOrder(LhsOut.cells, {})

(***************************************************************************)
(* C9 as amended: A.and(A).cells lists the distinct coordinates of A.cells *)
(* once each, ascending by row and then by column.                         *)
(***************************************************************************)
C9_SelfUnionSorted ==
    (Done /\ IsUnion /\ obj.lhs = obj.rhs /\ ~LhsOut.panic)
        => /\ ~out.panic
           /\ Len(out.cells) = Len(DedupKeepingOrder(LhsOut.cells, {}))
           /\ \A i \in 1..Len(LhsOut.cells) : LhsOut.cells[i] \in Elems(out.cells)
           /\ \A i \in 1..Len(out.cells) : out.cells[i] \in Elems(LhsOut.cells)
           /\ \A i, j \in 1..Len(out.cells) : i < j => Less(out.cells[i], out.cells[j])

\* A selector that repeats coordinates and does not emit them ascending, united with itself.
C9_Witness ==
    /\ Done
    /\ IsUnion
    /\ obj.lhs = obj.rhs
    /\ ~out.panic
    /\ HasDuplicates(LhsOut.cells)
    /\ ~StrictlyAscending(DedupKeepingOrder(LhsOut.cells, {}))

(***************************************************************************)
(* C10: cells on a Segment, Rows or Columns whose range has an excluded    *)
(* start bound fails fatally and returns no coordinates, whatever the end  *)
(* bound and the extent; so does the resolver called on its own.           *)
(***************************************************************************)
C10_ExcludedStartFails ==
    /\ (Done /\ RangeBased(obj) /\ StartExcluded(obj)) => out = Panic
    /\ (pc = "resolved" /\ obj.left[1] = "Excluded") => resolved = ResolvedPanic

\* A segment whose row range is well formed and whose column range starts excluded.
C10_Witness ==
    /\ Done
    /\ obj.kind = "Segment"
    /\ obj.rows = RangeFull
    /\ obj.columns.start[1] = "Excluded"
    /\ obj.columns.end[1] = "Included"
    /\ count_rows > 0
    /\ count_columns > 0
    /\ out = Panic

(***************************************************************************)
(* C11: the coordinates of Frame.cells are exactly the cells of the grid   *)
(* on its first or last row or its first or last column; none when the     *)
(* grid has no rows or no columns, and never an interior cell.             *)
(***************************************************************************)
Border ==
    {cell \in (0..(count_rows - 1)) \X (0..(count_columns - 1)) :
        \/ cell[1] = 0
        \/ cell[1] = count_rows - 1
        \/ cell[2] = 0
        \/ cell[2] = count_columns - 1}

C11_FrameIsBorder ==
    (Done /\ obj = Frame)
        => /\ ~out.panic
           /\ Elems(out.cells) = Border
           /\ (count_rows = 0 \/ count_columns = 0) => out.cells = <<>>
           /\ \A i \in 1..Len(out.cells) :
                 ~(/\ 0 < out.cells[i][1] /\ out.cells[i][1] < count_rows - 1
                   /\ 0 < out.cells[i][2] /\ out.cells[i][2] < count_columns - 1)

\* The frame of a grid that has an interior cell.
C11_Witness ==
    /\ Done
    /\ obj = Frame
    /\ count_rows >= 3
    /\ count_columns >= 3
    /\ <<1, 1>> \notin Elems(out.cells)
    /\ <<count_rows - 1, count_columns - 1>> \in Elems(out.cells)
    /\ Cardinality(Elems(out.cells)) = 2 * count_rows + 2 * count_columns - 4

(***************************************************************************)
(* C12: Columns::new(range).cells enumerates the resolved column interval  *)
(* [start, end) column by column, each column over all rows top to bottom; *)
(* it holds the coordinates of Segment::new(.., range).cells, in another   *)
(* order as soon as two columns of two rows are selected (a range that is  *)
(* malformed or overflows fails in both).                                  *)
(***************************************************************************)
ColumnInterval == ResolutionTable(obj.range.start, obj.range.end, count_columns)

\* Columns from..(to - 1), each over rows 0..(rows - 1), column after column.
ColumnMajor(from, to, rows) ==
    IF to <= from \/ rows = 0 THEN <<>>
    ELSE [p \in 1..((to - from) * rows) |->
            <<(p - 1) % rows, from + ((p - 1) \div rows)>>]

SegmentOut ==
    Segment_cells(Segment(RangeFull, obj.range), count_rows, count_columns, overflow_checks)

C12_ColumnsColumnMajor ==
    (Done /\ obj.kind = "Columns")
        => IF StartExcluded(obj) \/ (EndOverflows(obj) /\ overflow_checks)
           THEN out = Panic /\ SegmentOut = Panic
           ELSE IF EndOverflows(obj)
           THEN out = Ok(<<>>) /\ SegmentOut = Ok(<<>>)
           ELSE /\ out = Ok(ColumnMajor(ColumnInterval[1], ColumnInterval[2], count_rows))
                /\ ~SegmentOut.panic
                /\ Elems(out.cells) = Elems(SegmentOut.cells)
                /\ Len(out.cells) = Len(SegmentOut.cells)
                /\ (out.cells # SegmentOut.cells)
                      <=> (count_rows >= 2 /\ ColumnInterval[2] - ColumnInterval[1] >= 2)

\* Two columns of two rows, not starting at the first column: the order is not row-major.
C12_Witness ==
    /\ Done
    /\ obj.kind = "Columns"
    /\ obj.range.start = Included(1)
    /\ ~out.panic
    /\ count_rows >= 2
    /\ count_columns > 2
    /\ Len(out.cells) >= 2 * count_rows
    /\ out.cells[count_rows + 1][2] = 2
    /\ out.cells # SegmentOut.cells

====
